---- MODULE Spec2Model ----
(***************************************************************************)
(* Model of the ZeticML inference framework: the four NeuralNetwork        *)
(* implementations (LinearRegression, LogisticRegression,                  *)
(* MultiClassClassifier, TwoLayerMLP) and the ModelRegistry that creates   *)
(* them.                                                                   *)
(*                                                                         *)
(* Numbers.  The code computes in `float`.  Here a float is a fixed-point  *)
(* integer: the value v stands for v / Scale.  Every product and quotient  *)
(* is rounded to the nearest representable value, as a float operation is, *)
(* so the arithmetic has finite precision (1 + tiny = 1 happens), and      *)
(* std::exp is a fixed-point exponential.  The finite values end at        *)
(* FloatMax; a result beyond it is an infinity, and infinities and NaN     *)
(* propagate as in IEEE 754.  Sequences are 1-based; the operator At reads *)
(* them with the code's 0-based index.                                     *)
(***************************************************************************)
EXTENDS Integers, Sequences, FiniteSets, TLC

\* ------------------------------------------------------------------ bounds

\* Shape integers passed to create_model range over 0..MaxDim.
MaxDim == 2

\* Test vectors are generated from the seeds 0..MaxSeed (seed 0 is all-zero).
MaxSeed == 1

\* ------------------------------------------------------------- float model

\* One unit of a float: the value v stands for v / Scale.
Scale == 1000

\* The largest finite float: 2000.0.
FloatMax == 2000000

\* +infinity (-Inf is -infinity) and NaN.
Inf == FloatMax + 1
NaN == FloatMax + 2

\* std::isfinite
IsFinite(a) == -FloatMax <= a /\ a <= FloatMax

\* A finite result s as a float: beyond FloatMax it overflows to an infinity.
Overflow(s) == IF s > FloatMax THEN Inf ELSE IF s < -FloatMax THEN -Inf ELSE s

\* |a| and the sign of a, for a # NaN.
Abs(a) == IF a < 0 THEN -a ELSE a
Sign(a) == IF a < 0 THEN -1 ELSE IF a > 0 THEN 1 ELSE 0

\* p / d rounded to the nearest integer (d > 0).
Round(p, d) == (p + d \div 2) \div d

\* -a in float.
FNeg(a) == IF a = NaN THEN NaN ELSE -a

\* a + b in float: inf + -inf is NaN.
FAdd(a, b) ==
    IF IsFinite(a) /\ IsFinite(b) THEN Overflow(a + b)
    ELSE IF a = NaN \/ b = NaN THEN NaN
    ELSE IF IsFinite(a) THEN b
    ELSE IF IsFinite(b) \/ a = b THEN a
    ELSE NaN

\* a - b in float.
FSub(a, b) == FAdd(a, FNeg(b))

\* a * b in float: 0 * inf is NaN.
FMul(a, b) ==
    IF IsFinite(a) /\ IsFinite(b)
    THEN IF a = 0 \/ b = 0 THEN 0
         ELSE IF Abs(b) <= (FloatMax * Scale) \div Abs(a) THEN Round(a * b, Scale)
         ELSE Sign(a) * Sign(b) * Inf
    ELSE IF a = NaN \/ b = NaN \/ a = 0 \/ b = 0 THEN NaN
    ELSE Sign(a) * Sign(b) * Inf

\* a / b in float: inf / inf and 0 / 0 are NaN.
FDiv(a, b) ==
    IF IsFinite(a) /\ IsFinite(b)
    THEN IF b > 0 THEN Overflow(Round(a * Scale, b))
         ELSE IF b < 0 THEN Overflow(Round((-a) * Scale, -b))
         ELSE IF a = 0 THEN NaN ELSE Sign(a) * Inf
    ELSE IF a = NaN \/ b = NaN THEN NaN
    ELSE IF IsFinite(a) THEN 0
    ELSE IF IsFinite(b) THEN (IF b < 0 THEN -a ELSE a)
    ELSE NaN

\* a < b in float: false when either side is NaN.
FLess(a, b) == a # NaN /\ b # NaN /\ a < b

\* std::max(a, b): (a < b) ? b : a
FMax(a, b) == IF FLess(a, b) THEN b ELSE a

\* e^(-k) for k = 0..7, in units of 1/Scale; below that the result rounds to 0.
ExpNegTable == <<1000, 368, 135, 50, 18, 7, 2, 1>>

\* e^k for k = 0..6, in units of 1/Scale.
ExpPosTable == <<1000, 2718, 7389, 20086, 54598, 148413, 403429>>

\* What std::exp returns where the result exceeds the largest finite float.
ExpHuge == Inf

RECURSIVE ExpSeries(_, _, _, _)
\* Taylor series of e^(f/Scale), 0 <= f < Scale: the terms from term n on.
ExpSeries(f, n, term, acc) ==
    IF term = 0 \/ n > 12 THEN acc
    ELSE LET next == Round(term * f, n * Scale)
         IN  ExpSeries(f, n + 1, next, acc + next)

\* e^(f/Scale) for 0 <= f < Scale.
ExpFrac(f) == ExpSeries(f, 1, Scale, Scale)

\* std::exp(x)
Exp(x) ==
    IF x = NaN THEN NaN
    ELSE IF x = Inf THEN Inf
    ELSE IF x = -Inf THEN 0
    ELSE IF x >= 0
    THEN LET k == x \div Scale
             f == x % Scale
         IN  IF k + 1 > Len(ExpPosTable) THEN ExpHuge
             ELSE Round(ExpPosTable[k + 1] * ExpFrac(f), Scale)
    ELSE LET k == (-x + Scale - 1) \div Scale      \* x = -k*Scale + f
             f == x + k * Scale
         IN  IF k + 1 > Len(ExpNegTable) THEN 0
             ELSE Round(ExpNegTable[k + 1] * ExpFrac(f), Scale)

\* ----------------------------------------------------------------- vectors

\* v[i] with the code's 0-based index.
At(v, i) == v[i + 1]

\* std::vector<float>(n, x)
Filled(n, x) == [i \in 1..n |-> x]

\* The outcome of a call on the object m: it returns v, or throws (or the
\* process dies) with the message w; model is the object the call leaves.
Returned(m, v) == [threw |-> FALSE, what |-> "", value |-> v, model |-> m]
Threw(m, w) == [threw |-> TRUE, what |-> w, value |-> <<>>, model |-> m]

\* The slot of a handle that holds no model.
NoModel == [type |-> "none"]

\* ------------------------------------------------------------------- state

VARIABLES
    models,          \* handle -> the model the caller owns through it, or NoModel
    last,            \* the last call made: its operation, arguments and result
    accepted,        \* handle -> the vector of the last set_parameters that returned
    max_of_empty,    \* what *std::max_element(end, end) does in this build
    calls            \* thread -> the call it has in flight on the shared model

vars == <<models, last, accepted, max_of_empty, calls>>

\* ------------------------------------------------------- LinearRegression

\* LinearRegression::LinearRegression
LinearRegression(input_size) ==
    [type |-> "linear", input_size_ |-> input_size,
     weights_ |-> Filled(input_size, 0), bias_ |-> 0]

RECURSIVE LinearLoop(_, _, _, _)
\* for (i = 0; i < input_size_; ++i) result += weights_[i] * input[i];
LinearLoop(m, input, i, result) ==
    IF i < m.input_size_
    THEN LinearLoop(m, input, i + 1, FAdd(result, FMul(At(m.weights_, i), At(input, i))))
    ELSE result

\* LinearRegression::forward with `result` bound by reference to bias_
\* (float& result = bias_): the sum is accumulated into the stored bias.
LinearForwardIntoBias(m, input) ==
    IF Len(input) # m.input_size_ THEN Threw(m, "Input size mismatch")
    ELSE LET result == LinearLoop(m, input, 0, m.bias_)
         IN  Returned([m EXCEPT !.bias_ = result], <<result>>)

\* LinearRegression::forward
LinearForward(m, input) ==
    IF Len(input) # m.input_size_ THEN Threw(m, "Input size mismatch")
    ELSE Returned(m, <<LinearLoop(m, input, 0, m.bias_)>>)

\* LinearRegression::set_parameters reading the bias first and the weights
\* after it.
LinearSetParametersBiasFirst(m, parameters) ==
    IF Len(parameters) # m.input_size_ + 1
    THEN Threw(m, "Parameter size mismatch")
    ELSE Returned([m EXCEPT !.weights_ = [i1 \in 1..m.input_size_ |-> At(parameters, i1)],
                            !.bias_ = At(parameters, 0)], <<>>)

\* LinearRegression::set_parameters keeping the whole vector as the weights
\* (weights_.assign(parameters.begin(), parameters.end())).
LinearSetParametersKeepsAll(m, parameters) ==
    IF Len(parameters) # m.input_size_ + 1
    THEN Threw(m, "Parameter size mismatch")
    ELSE Returned([m EXCEPT !.weights_ = parameters,
                            !.bias_ = At(parameters, m.input_size_)], <<>>)

\* LinearRegression::set_parameters
LinearSetParameters(m, parameters) ==
    IF Len(parameters) # m.input_size_ + 1
    THEN Threw(m, "Parameter size mismatch")
    ELSE Returned([m EXCEPT !.weights_ = [i1 \in 1..m.input_size_ |-> At(parameters, i1 - 1)],
                            !.bias_ = At(parameters, m.input_size_)], <<>>)

\* ----------------------------------------------------- LogisticRegression

\* LogisticRegression::LogisticRegression
LogisticRegression(input_size) ==
    [type |-> "logistic", input_size_ |-> input_size,
     weights_ |-> Filled(input_size, 0), bias_ |-> 0]

\* 1.0f / (1.0f + std::exp(-linear_output))
Sigmoid(z) == FDiv(Scale, FAdd(Scale, Exp(FNeg(z))))

\* LogisticRegression::forward
LogisticForward(m, input) ==
    IF Len(input) # m.input_size_ THEN Threw(m, "Input size mismatch")
    ELSE Returned(m, <<Sigmoid(LinearLoop(m, input, 0, m.bias_))>>)

\* LogisticRegression::set_parameters
LogisticSetParameters(m, parameters) == LinearSetParameters(m, parameters)

\* --------------------------------------------------- MultiClassClassifier

\* MultiClassClassifier::MultiClassClassifier
MultiClassClassifier(input_size, num_classes) ==
    [type |-> "multiclass", input_size_ |-> input_size, num_classes_ |-> num_classes,
     weights_ |-> Filled(num_classes, Filled(input_size, 0)),
     biases_ |-> Filled(num_classes, 0)]

RECURSIVE LogitLoop(_, _, _, _, _)
\* for (i = 0; i < input_size_; ++i) logits[c] += weights_[c][i] * input[i];
LogitLoop(m, input, c, i, logit) ==
    IF i < m.input_size_
    THEN LogitLoop(m, input, c, i + 1,
                   FAdd(logit, FMul(At(At(m.weights_, c), i), At(input, i))))
    ELSE logit

\* The logits vector of MultiClassClassifier::forward.
Logits(m, input) ==
    [c1 \in 1..m.num_classes_ |-> LogitLoop(m, input, c1 - 1, 0, At(m.biases_, c1 - 1))]

RECURSIVE MaxElement(_, _, _)
\* *std::max_element over v[i..], best so far b (v non-empty).
MaxElement(v, i, b) ==
    IF i < Len(v) THEN MaxElement(v, i + 1, FMax(b, At(v, i))) ELSE b

RECURSIVE SumExp(_, _, _)
\* for (c ...) sum_exp += probabilities[c];
SumExp(e, c, sum_exp) ==
    IF c < Len(e) THEN SumExp(e, c + 1, FAdd(sum_exp, At(e, c))) ELSE sum_exp

\* The softmax of MultiClassClassifier::forward, for a non-empty logits vector.
Softmax(logits) ==
    LET max_logit == MaxElement(logits, 1, At(logits, 0))
        e == [c1 \in 1..Len(logits) |-> Exp(FSub(logits[c1], max_logit))]
        sum_exp == SumExp(e, 0, 0)
    IN  [c1 \in 1..Len(logits) |-> FDiv(e[c1], sum_exp)]

\* MultiClassClassifier::forward.  With num_classes_ = 0 the logits vector is
\* empty and *std::max_element(begin, end) dereferences end(): undefined
\* behaviour, which either kills the process or (the value being unused) is
\* compiled away, leaving the empty probabilities vector to be returned.
MultiClassForward(m, input) ==
    IF Len(input) # m.input_size_ THEN Threw(m, "Input size mismatch")
    ELSE IF m.num_classes_ = 0
         THEN IF max_of_empty = "segv" THEN Threw(m, "SIGSEGV") ELSE Returned(m, <<>>)
         ELSE Returned(m, Softmax(Logits(m, input)))

\* MultiClassClassifier::set_parameters reading, class by class, the weights
\* of the class followed by its bias (the layout the example's comment names).
MultiClassSetParametersInterleaved(m, parameters) ==
    LET expected_size == m.num_classes_ * m.input_size_ + m.num_classes_
    IN  IF Len(parameters) # expected_size
        THEN Threw(m, "Parameter size mismatch")
        ELSE Returned([m EXCEPT
                  !.weights_ = [c1 \in 1..m.num_classes_ |->
                                  [i1 \in 1..m.input_size_ |->
                                      At(parameters, (c1 - 1) * (m.input_size_ + 1) + (i1 - 1))]],
                  !.biases_ = [c1 \in 1..m.num_classes_ |->
                                  At(parameters, (c1 - 1) * (m.input_size_ + 1) + m.input_size_)]],
                      <<>>)

\* MultiClassClassifier::set_parameters adding the new biases to the stored
\* ones (biases_[c] += parameters[param_idx++]).
MultiClassSetParametersAddsBiases(m, parameters) ==
    LET expected_size == m.num_classes_ * m.input_size_ + m.num_classes_
    IN  IF Len(parameters) # expected_size
        THEN Threw(m, "Parameter size mismatch")
        ELSE Returned([m EXCEPT
                  !.weights_ = [c1 \in 1..m.num_classes_ |->
                                  [i1 \in 1..m.input_size_ |->
                                      At(parameters, (c1 - 1) * m.input_size_ + (i1 - 1))]],
                  !.biases_ = [c1 \in 1..m.num_classes_ |->
                                  FAdd(At(m.biases_, c1 - 1),
                                       At(parameters, m.num_classes_ * m.input_size_ + (c1 - 1)))]],
                      <<>>)

\* MultiClassClassifier::set_parameters: param_idx runs over the weights of
\* class 0, class 1, ... and then over the biases.
MultiClassSetParameters(m, parameters) ==
    LET expected_size == m.num_classes_ * m.input_size_ + m.num_classes_
    IN  IF Len(parameters) # expected_size
        THEN Threw(m, "Parameter size mismatch")
        ELSE Returned([m EXCEPT
                  !.weights_ = [c1 \in 1..m.num_classes_ |->
                                  [i1 \in 1..m.input_size_ |->
                                      At(parameters, (c1 - 1) * m.input_size_ + (i1 - 1))]],
                  !.biases_ = [c1 \in 1..m.num_classes_ |->
                                  At(parameters, m.num_classes_ * m.input_size_ + (c1 - 1))]],
                      <<>>)

\* ------------------------------------------------------------ TwoLayerMLP

\* TwoLayerMLP::TwoLayerMLP resizing b2_ without the 0.0f fill value of the
\* other vectors (here: filled with 1.0).
TwoLayerMLPBiasNotZeroed(input_size, hidden_size, output_size) ==
    [type |-> "mlp", input_size_ |-> input_size, hidden_size_ |-> hidden_size,
     output_size_ |-> output_size,
     W1_ |-> Filled(input_size * hidden_size, 0), b1_ |-> Filled(hidden_size, 0),
     W2_ |-> Filled(hidden_size * output_size, 0), b2_ |-> Filled(output_size, Scale)]

\* TwoLayerMLP::TwoLayerMLP
TwoLayerMLP(input_size, hidden_size, output_size) ==
    [type |-> "mlp", input_size_ |-> input_size, hidden_size_ |-> hidden_size,
     output_size_ |-> output_size,
     W1_ |-> Filled(input_size * hidden_size, 0), b1_ |-> Filled(hidden_size, 0),
     W2_ |-> Filled(hidden_size * output_size, 0), b2_ |-> Filled(output_size, 0)]

RECURSIVE HiddenLoopTransposed(_, _, _, _, _)
\* The hidden-layer loop indexing W1_ row-major by hidden unit:
\* W1_[h * input_size_ + i].
HiddenLoopTransposed(m, input, h, i, acc) ==
    IF i < m.input_size_
    THEN HiddenLoopTransposed(m, input, h, i + 1,
                    FAdd(acc, FMul(At(m.W1_, h * m.input_size_ + i), At(input, i))))
    ELSE acc

RECURSIVE HiddenLoop(_, _, _, _, _)
\* for (i = 0; i < input_size_; ++i) hidden[h] += W1_[i * hidden_size_ + h] * input[i];
HiddenLoop(m, input, h, i, acc) ==
    IF i < m.input_size_
    THEN HiddenLoop(m, input, h, i + 1,
                    FAdd(acc, FMul(At(m.W1_, i * m.hidden_size_ + h), At(input, i))))
    ELSE acc

\* The hidden vector of TwoLayerMLP::forward without the std::max of line 34.
HiddenWithoutReLU(m, input) ==
    [h1 \in 1..m.hidden_size_ |-> HiddenLoop(m, input, h1 - 1, 0, At(m.b1_, h1 - 1))]

\* The hidden vector of TwoLayerMLP::forward, after the ReLU.
Hidden(m, input) ==
    [h1 \in 1..m.hidden_size_ |->
        FMax(0, HiddenLoop(m, input, h1 - 1, 0, At(m.b1_, h1 - 1)))]

RECURSIVE OutputLoop(_, _, _, _, _)
\* for (h = 0; h < hidden_size_; ++h) output[o] += W2_[h * output_size_ + o] * hidden[h];
OutputLoop(m, hidden, o, h, acc) ==
    IF h < m.hidden_size_
    THEN OutputLoop(m, hidden, o, h + 1,
                    FAdd(acc, FMul(At(m.W2_, h * m.output_size_ + o), At(hidden, h))))
    ELSE acc

\* TwoLayerMLP::forward
MLPForward(m, input) ==
    IF Len(input) # m.input_size_ THEN Threw(m, "Input size mismatch")
    ELSE LET hidden == Hidden(m, input)
         IN  Returned(m, [o1 \in 1..m.output_size_ |->
                             OutputLoop(m, hidden, o1 - 1, 0, At(m.b2_, o1 - 1))])

\* TwoLayerMLP::set_parameters rejecting only the vectors that are too short.
MLPSetParametersAcceptsLonger(m, parameters) ==
    LET expected_size == Len(m.W1_) + Len(m.b1_) + Len(m.W2_) + Len(m.b2_)
    IN  IF Len(parameters) < expected_size
        THEN Threw(m, "Parameter size mismatch")
        ELSE Returned([m EXCEPT
                  !.W1_ = [i1 \in 1..Len(m.W1_) |-> At(parameters, i1 - 1)],
                  !.b1_ = [i1 \in 1..Len(m.b1_) |-> At(parameters, Len(m.W1_) + i1 - 1)],
                  !.W2_ = [i1 \in 1..Len(m.W2_) |->
                              At(parameters, Len(m.W1_) + Len(m.b1_) + i1 - 1)],
                  !.b2_ = [i1 \in 1..Len(m.b2_) |->
                              At(parameters, Len(m.W1_) + Len(m.b1_) + Len(m.W2_) + i1 - 1)]],
                      <<>>)

\* TwoLayerMLP::set_parameters: idx runs over W1, b1, W2, b2 in this order.
MLPSetParameters(m, parameters) ==
    LET expected_size == Len(m.W1_) + Len(m.b1_) + Len(m.W2_) + Len(m.b2_)
    IN  IF Len(parameters) # expected_size
        THEN Threw(m, "Parameter size mismatch")
        ELSE Returned([m EXCEPT
                  !.W1_ = [i1 \in 1..Len(m.W1_) |-> At(parameters, i1 - 1)],
                  !.b1_ = [i1 \in 1..Len(m.b1_) |-> At(parameters, Len(m.W1_) + i1 - 1)],
                  !.W2_ = [i1 \in 1..Len(m.W2_) |->
                              At(parameters, Len(m.W1_) + Len(m.b1_) + i1 - 1)],
                  !.b2_ = [i1 \in 1..Len(m.b2_) |->
                              At(parameters, Len(m.W1_) + Len(m.b1_) + Len(m.W2_) + i1 - 1)]],
                      <<>>)

\* ---------------------------------------------- NeuralNetwork (the interface)

\* NeuralNetwork::forward, dispatched on the object's class.
forward(m, input) ==
    CASE m.type = "linear" -> LinearForward(m, input)
      [] m.type = "logistic" -> LogisticForward(m, input)
      [] m.type = "multiclass" -> MultiClassForward(m, input)
      [] m.type = "mlp" -> MLPForward(m, input)

\* NeuralNetwork::set_parameters, dispatched on the object's class.
set_parameters(m, parameters) ==
    CASE m.type = "linear" -> LinearSetParameters(m, parameters)
      [] m.type = "logistic" -> LogisticSetParameters(m, parameters)
      [] m.type = "multiclass" -> MultiClassSetParameters(m, parameters)
      [] m.type = "mlp" -> MLPSetParameters(m, parameters)

\* NeuralNetwork::input_size
input_size(m) == m.input_size_

\* TwoLayerMLP::output_size returning the width of the hidden layer.
MLPOutputSizeHidden(m) == m.hidden_size_

\* TwoLayerMLP::output_size
MLPOutputSize(m) == m.output_size_

\* NeuralNetwork::output_size, dispatched on the object's class.
output_size(m) ==
    CASE m.type = "linear" -> 1
      [] m.type = "logistic" -> 1
      [] m.type = "multiclass" -> m.num_classes_
      [] m.type = "mlp" -> MLPOutputSize(m)

\* The decimal digits of std::to_string.
Digits == <<"0", "1", "2", "3", "4", "5", "6", "7", "8", "9">>

RECURSIVE to_string(_)
\* std::to_string(n) for a size_t n
to_string(n) ==
    IF n < 10 THEN Digits[n + 1] ELSE to_string(n \div 10) \o Digits[(n % 10) + 1]

\* NeuralNetwork::get_model_type, dispatched on the object's class.
get_model_type(m) ==
    CASE m.type = "linear" -> "Linear Regression"
      [] m.type = "logistic" -> "Logistic Regression"
      [] m.type = "multiclass" ->
            "Multi-Class Classifier (" \o to_string(m.num_classes_) \o " classes)"
      [] m.type = "mlp" -> "Two-Layer MLP"

\* ------------------------------------------------------------ ModelRegistry

\* ModelRegistry::create_model(type_name, input_size)
CreateModel1(type_name, n) ==
    IF type_name = "linear" THEN Returned(LinearRegression(n), <<>>)
    ELSE IF type_name = "logistic" THEN Returned(LogisticRegression(n), <<>>)
    ELSE Threw(NoModel, "Unknown single-parameter model type")

\* The two-integer overload also serving "linear", ignoring param2.
CreateModel2AcceptsLinear(type_name, n, param2) ==
    IF type_name = "multiclass" THEN Returned(MultiClassClassifier(n, param2), <<>>)
    ELSE IF type_name = "linear" THEN Returned(LinearRegression(n), <<>>)
    ELSE Threw(NoModel, "Unknown two-parameter model type")

\* ModelRegistry::create_model(type_name, input_size, param2)
CreateModel2(type_name, n, param2) ==
    IF type_name = "multiclass" THEN Returned(MultiClassClassifier(n, param2), <<>>)
    ELSE Threw(NoModel, "Unknown two-parameter model type")

\* ModelRegistry::create_model(type_name, input_size, hidden_size, output_size)
CreateModel3(type_name, n, hidden, out) ==
    IF type_name = "mlp" THEN Returned(TwoLayerMLP(n, hidden, out), <<>>)
    ELSE Threw(NoModel, "Unknown three-parameter model type")

\* ModelRegistry::is_registered forgetting the last identifier.
IsRegisteredWithoutMlp(type_name) ==
    type_name = "linear" \/ type_name = "logistic" \/ type_name = "multiclass"

\* ModelRegistry::is_registered.  The member registered_types_ is neither
\* read nor written by any method, so it is not part of the state.
is_registered(type_name) ==
    type_name = "linear" \/ type_name = "logistic"
    \/ type_name = "multiclass" \/ type_name = "mlp"

\* ModelRegistry::get_registered_types
get_registered_types == <<"linear", "logistic", "multiclass", "mlp">>

\* The overload of create_model that a call with these shape integers selects.
create_model(type_name, shape) ==
    CASE Len(shape) = 1 -> CreateModel1(type_name, shape[1])
      [] Len(shape) = 2 -> CreateModel2(type_name, shape[1], shape[2])
      [] Len(shape) = 3 -> CreateModel3(type_name, shape[1], shape[2], shape[3])

\* ------------------------------------------------------------------ inputs

\* The identifiers create_model is called with: the four it knows and one it
\* does not.
TypeNames == {"linear", "logistic", "multiclass", "mlp", "bogus"}

\* The shapes used by the examples and the tests of the repository.
ExampleShapes == {<<3>>, <<2, 3>>, <<2, 3, 2>>}

\* The shape integers create_model is called with: one, two or three of them.
Shapes ==
    {<<a>> : a \in 0..MaxDim}
    \cup {<<a, b>> : a, b \in 0..MaxDim}
    \cup {<<a, b, c>> : a, b, c \in 0..MaxDim}
    \cup ExampleShapes

\* The values the generated vectors are made of: 0, 0.5, -0.5, 1, -1, 2, -1.5.
FloatVals == <<0, Scale \div 2, -(Scale \div 2), Scale, -Scale, 2 * Scale,
               -(3 * Scale) \div 2>>

\* Generated parameter vector: seed 0 is all-zero, the others run through
\* FloatVals so that neighbouring entries differ.
ParamVec(seed, len) ==
    [i1 \in 1..len |-> FloatVals[((seed * (2 * i1 + seed)) % Len(FloatVals)) + 1]]

\* Generated input vector.
InputVec(seed, len) ==
    [i1 \in 1..len |-> FloatVals[((seed * (5 * i1 + 1)) % Len(FloatVals)) + 1]]

\* examples/neural_example.cpp: the parameters and the input of the
\* multi-class example, {1.0, 0.5, 0.2, -0.5, 1.2, -0.1, 0.2, -0.8, 0.3} and
\* {0.6, -0.4}.
classifier_params ==
    <<Scale, Scale \div 2, Scale \div 5, -(Scale \div 2), (6 * Scale) \div 5,
      -(Scale \div 10), Scale \div 5, -((4 * Scale) \div 5), (3 * Scale) \div 10>>
classification_input == <<(3 * Scale) \div 5, -((2 * Scale) \div 5)>>

\* examples/neural_example.cpp: the linear example, {0.5, 0.3, 0.2, 0.1} and
\* {1.0, 2.0, -0.5}.
linear_params == <<Scale \div 2, (3 * Scale) \div 10, Scale \div 5, Scale \div 10>>
input_data == <<Scale, 2 * Scale, -(Scale \div 2)>>

\* The number of parameters the shape of the model m asks for (spec 4.2 to
\* 4.5): n+1, k*n+k, n*h+h+h*m+m.
ExpectedCount(m) ==
    CASE m.type \in {"linear", "logistic"} -> m.input_size_ + 1
      [] m.type = "multiclass" -> m.num_classes_ * m.input_size_ + m.num_classes_
      [] m.type = "mlp" ->
            m.input_size_ * m.hidden_size_ + m.hidden_size_
            + m.hidden_size_ * m.output_size_ + m.output_size_

\* The vectors set_parameters is called with on the model m: generated ones
\* of the expected length, one shorter, one longer and empty, and the
\* examples' vectors.
ParamVectors(m) ==
    {ParamVec(seed, len) :
        seed \in 0..MaxSeed,
        len \in {n \in {0, ExpectedCount(m) - 1, ExpectedCount(m), ExpectedCount(m) + 1} :
                    n >= 0}}
    \cup {classifier_params, linear_params}

\* The vectors forward is called with.
InputVectors ==
    {InputVec(seed, len) : seed \in 0..MaxSeed, len \in 0..(MaxDim + 1)}
    \cup {classification_input, input_data}

\* ----------------------------------------------------------------- actions

\* The model as its constructor built it, from the shape it reports.
Constructed(m) ==
    CASE m.type = "none" -> NoModel
      [] m.type = "linear" -> LinearRegression(m.input_size_)
      [] m.type = "logistic" -> LogisticRegression(m.input_size_)
      [] m.type = "multiclass" -> MultiClassClassifier(m.input_size_, m.num_classes_)
      [] m.type = "mlp" -> TwoLayerMLP(m.input_size_, m.hidden_size_, m.output_size_)

\* The handles through which the caller owns models.
Handles == {1}

\* The threads that call into a model they share.
Threads == {1, 2}

\* A thread with no call in flight.
Idle == [op |-> "idle"]

\* No set_parameters call has returned on the model yet.
Fresh == [fresh |-> TRUE, parameters |-> <<>>]

\* The record of a call and of its outcome r.
Call(op, h, type_name, arg, r) ==
    [op |-> op, h |-> h, type_name |-> type_name, arg |-> arg,
     threw |-> r.threw, what |-> r.what, value |-> r.value,
     made |-> IF op = "create_model" THEN r.model ELSE NoModel]

\* The process has not died.
Alive == last.what # "SIGSEGV"

Init ==
    /\ models = [h \in Handles |-> NoModel]
    /\ accepted = [h \in Handles |-> Fresh]
    /\ last = Call("none", 0, "", <<>>, Returned(NoModel, <<>>))
    /\ max_of_empty \in {"segv", "unread"}
    /\ calls = [t \in Threads |-> Idle]

\* auto model = registry.create_model(type_name, shape...): on success the
\* handle owns the new model; when create_model throws, the handle is left
\* as it was.  A handle is given a model once, as in the tests and the
\* example.  create_model reads no state, so the calls that throw are made
\* with every shape while the handle is empty and with the examples' shapes
\* once it owns a model.
Create(h) ==
    /\ Alive
    /\ \E type_name \in TypeNames, shape \in Shapes :
        LET r == create_model(type_name, shape)
        IN  /\ IF r.threw THEN models[h] = NoModel \/ shape \in ExampleShapes
                          ELSE models[h] = NoModel
            /\ models' = IF r.threw THEN models ELSE [models EXCEPT ![h] = r.model]
            /\ accepted' = IF r.threw THEN accepted ELSE [accepted EXCEPT ![h] = Fresh]
            /\ last' = Call("create_model", h, type_name, shape, r)
    /\ UNCHANGED <<max_of_empty, calls>>

\* model->set_parameters(parameters)
SetParameters(h) ==
    /\ Alive
    /\ models[h] # NoModel
    /\ \E parameters \in ParamVectors(models[h]) :
        LET r == set_parameters(models[h], parameters)
        IN  /\ models' = [models EXCEPT ![h] = r.model]
            /\ accepted' = IF r.threw THEN accepted
                           ELSE [accepted EXCEPT
                                    ![h] = [fresh |-> FALSE, parameters |-> parameters]]
            /\ last' = Call("set_parameters", h, "", parameters, r)
    /\ UNCHANGED <<max_of_empty, calls>>

\* model->forward(input)
Forward(h) ==
    /\ Alive
    /\ models[h] # NoModel
    /\ \E input \in InputVectors :
        LET r == forward(models[h], input)
        IN  /\ models' = [models EXCEPT ![h] = r.model]
            /\ last' = Call("forward", h, "", input, r)
    /\ UNCHANGED <<accepted, max_of_empty, calls>>

\* registry.is_registered(type_name)
IsRegistered ==
    /\ Alive
    /\ \E type_name \in TypeNames :
        last' = Call("is_registered", 0, type_name, <<>>,
                     Returned(NoModel, <<is_registered(type_name)>>))
    /\ UNCHANGED <<models, accepted, max_of_empty, calls>>

\* registry.get_registered_types()
GetRegisteredTypes ==
    /\ Alive
    /\ last' = Call("get_registered_types", 0, "", <<>>,
                    Returned(NoModel, get_registered_types))
    /\ UNCHANGED <<models, accepted, max_of_empty, calls>>

Next ==
    \/ \E h \in Handles : Create(h) \/ SetParameters(h) \/ Forward(h)
    \/ IsRegistered
    \/ GetRegisteredTypes

Spec == Init /\ [][Next]_vars

\* --------------------------------------------------------- two models

\* The handles of a caller that owns two models at a time.
PairHandles == {1, 2}

InitPair ==
    /\ models = [h \in PairHandles |-> NoModel]
    /\ accepted = [h \in PairHandles |-> Fresh]
    /\ last = Call("none", 0, "", <<>>, Returned(NoModel, <<>>))
    /\ max_of_empty \in {"segv", "unread"}
    /\ calls = [t \in Threads |-> Idle]

\* auto model = registry.create_model(type_name, shape...) with the shapes of
\* the examples and the tests; as in Create, a handle is given a model once.
CreatePair(h) ==
    /\ Alive
    /\ \E type_name \in TypeNames, shape \in ExampleShapes :
        LET r == create_model(type_name, shape)
        IN  /\ r.threw \/ models[h] = NoModel
            /\ models' = IF r.threw THEN models ELSE [models EXCEPT ![h] = r.model]
            /\ accepted' = IF r.threw THEN accepted ELSE [accepted EXCEPT ![h] = Fresh]
            /\ last' = Call("create_model", h, type_name, shape, r)
    /\ UNCHANGED <<max_of_empty, calls>>

\* The vectors set_parameters is called with on one of two models: the
\* examples' vectors and a generated one of the expected length.
PairParamVectors(m) ==
    {classifier_params, linear_params, ParamVec(1, ExpectedCount(m))}

\* The vectors forward is called with on one of two models: the examples'
\* inputs, of length 2 and 3.
PairInputVectors == {classification_input, input_data}

\* model->set_parameters(parameters) with the parameters kept in storage
\* shared by the models of one class and shape (static members).
PairSetParametersShared(h) ==
    /\ Alive
    /\ models[h] # NoModel
    /\ \E parameters \in PairParamVectors(models[h]) :
        LET r == set_parameters(models[h], parameters)
        IN  /\ models' = [g \in DOMAIN models |->
                            IF Constructed(models[g]) = Constructed(models[h])
                            THEN r.model ELSE models[g]]
            /\ accepted' = IF r.threw THEN accepted
                           ELSE [accepted EXCEPT
                                    ![h] = [fresh |-> FALSE, parameters |-> parameters]]
            /\ last' = Call("set_parameters", h, "", parameters, r)
    /\ UNCHANGED <<max_of_empty, calls>>

\* model->set_parameters(parameters) on one of two models
PairSetParameters(h) ==
    /\ Alive
    /\ models[h] # NoModel
    /\ \E parameters \in PairParamVectors(models[h]) :
        LET r == set_parameters(models[h], parameters)
        IN  /\ models' = [models EXCEPT ![h] = r.model]
            /\ accepted' = IF r.threw THEN accepted
                           ELSE [accepted EXCEPT
                                    ![h] = [fresh |-> FALSE, parameters |-> parameters]]
            /\ last' = Call("set_parameters", h, "", parameters, r)
    /\ UNCHANGED <<max_of_empty, calls>>

\* model->forward(input) on one of two models
PairForward(h) ==
    /\ Alive
    /\ models[h] # NoModel
    /\ \E input \in PairInputVectors :
        LET r == forward(models[h], input)
        IN  /\ models' = [models EXCEPT ![h] = r.model]
            /\ last' = Call("forward", h, "", input, r)
    /\ UNCHANGED <<accepted, max_of_empty, calls>>

NextPair == \E h \in PairHandles : CreatePair(h) \/ PairSetParameters(h) \/ PairForward(h)

\* The caller of Spec owning two models.
SpecPair == InitPair /\ [][NextPair]_vars

\* --------------------------------------- threads sharing one perceptron

\* The shape of the perceptron the threads share.
SharedShape == <<1, 2, 1>>

\* The vectors the threads call set_parameters with: two of the expected
\* length and one that is rejected.
ThreadParamVectors(m) ==
    {ParamVec(1, ExpectedCount(m)), Filled(ExpectedCount(m), Scale \div 2), linear_params}

\* The vectors the threads call forward with: two of length input_size and
\* one that is rejected.
ThreadInputVectors == {<<Scale>>, <<-(Scale \div 2)>>, <<>>}

InitThreads ==
    LET r == create_model("mlp", SharedShape)
    IN  /\ models = [h \in Handles |-> r.model]
        /\ accepted = [h \in Handles |-> Fresh]
        /\ last = Call("create_model", 1, "mlp", SharedShape, r)
        /\ max_of_empty \in {"segv", "unread"}
        /\ calls = [t \in Threads |-> Idle]

\* A set_parameters call has been entered and has not returned.
SetInFlight == \E u \in Threads : calls[u].op = "set_parameters"

\* v with the entry of 0-based index i replaced by x.
Put(v, i, x) == [v EXCEPT ![i + 1] = x]

\* A thread enters model->forward(input).  overlapped records whether a
\* set_parameters call is in flight at any time during the call.
BeginForward(t) ==
    /\ calls[t] = Idle
    /\ \E input \in ThreadInputVectors :
        calls' = [calls EXCEPT ![t] =
                    [op |-> "forward", pc |-> "check", input |-> input,
                     h |-> 0, i |-> 0, o |-> 0, hidden |-> <<>>, output |-> <<>>,
                     threw |-> FALSE, overlapped |-> SetInFlight]]
    /\ UNCHANGED <<models, last, accepted, max_of_empty>>

\* One step of TwoLayerMLP::forward in the frame f on the object m: a loop
\* test with the statement it guards, which reads one stored value.
ForwardFrameStep(m, f) ==
    CASE f.pc = "check" ->
            IF Len(f.input) # m.input_size_
            THEN [f EXCEPT !.pc = "done", !.threw = TRUE]
            ELSE [f EXCEPT !.pc = "hidden", !.hidden = Filled(m.hidden_size_, 0), !.h = 0]
      [] f.pc = "hidden" ->
            IF f.h < m.hidden_size_
            THEN [f EXCEPT !.pc = "input", !.i = 0,
                           !.hidden = Put(f.hidden, f.h, At(m.b1_, f.h))]
            ELSE [f EXCEPT !.pc = "output", !.output = Filled(m.output_size_, 0), !.o = 0]
      [] f.pc = "input" ->
            IF f.i < m.input_size_
            THEN [f EXCEPT !.i = f.i + 1,
                           !.hidden = Put(f.hidden, f.h,
                                FAdd(At(f.hidden, f.h),
                                     FMul(At(m.W1_, f.i * m.hidden_size_ + f.h),
                                          At(f.input, f.i))))]
            ELSE [f EXCEPT !.pc = "hidden", !.h = f.h + 1,
                           !.hidden = Put(f.hidden, f.h, FMax(0, At(f.hidden, f.h)))]
      [] f.pc = "output" ->
            IF f.o < m.output_size_
            THEN [f EXCEPT !.pc = "sum", !.h = 0,
                           !.output = Put(f.output, f.o, At(m.b2_, f.o))]
            ELSE [f EXCEPT !.pc = "done"]
      [] f.pc = "sum" ->
            IF f.h < m.hidden_size_
            THEN [f EXCEPT !.h = f.h + 1,
                           !.output = Put(f.output, f.o,
                                FAdd(At(f.output, f.o),
                                     FMul(At(m.W2_, f.h * m.output_size_ + f.o),
                                          At(f.hidden, f.h))))]
            ELSE [f EXCEPT !.pc = "output", !.o = f.o + 1]

\* A step of forward with `hidden` a member of the model, one buffer for all
\* the calls in flight, in place of the local vector.
ForwardStepSharedHidden(t) ==
    /\ calls[t].op = "forward" /\ calls[t].pc # "done"
    /\ LET f == ForwardFrameStep(models[1], calls[t])
       IN  calls' = [u \in Threads |->
                        IF u = t THEN f
                        ELSE IF /\ calls[u].op = "forward" /\ calls[u].pc # "done"
                                /\ Len(calls[u].hidden) = Len(f.hidden)
                             THEN [calls[u] EXCEPT !.hidden = f.hidden]
                             ELSE calls[u]]
    /\ UNCHANGED <<models, last, accepted, max_of_empty>>

\* A thread takes a step of the forward call it is in.
ForwardStep(t) ==
    /\ calls[t].op = "forward" /\ calls[t].pc # "done"
    /\ calls' = [calls EXCEPT ![t] = ForwardFrameStep(models[1], calls[t])]
    /\ UNCHANGED <<models, last, accepted, max_of_empty>>

\* The caller has the result of its forward call (output, or the exception).
EndForward(t) ==
    /\ calls[t].op = "forward" /\ calls[t].pc = "done"
    /\ calls' = [calls EXCEPT ![t] = Idle]
    /\ UNCHANGED <<models, last, accepted, max_of_empty>>

\* A thread enters model->set_parameters(parameters): every forward call in
\* flight is overlapped by it.
BeginSetParameters(t) ==
    /\ calls[t] = Idle
    /\ \E parameters \in ThreadParamVectors(models[1]) :
        calls' = [u \in Threads |->
                    IF u = t
                    THEN [op |-> "set_parameters", pc |-> "check",
                          parameters |-> parameters, i |-> 0, idx |-> 0]
                    ELSE IF calls[u].op = "forward" /\ calls[u].pc # "done"
                         THEN [calls[u] EXCEPT !.overlapped = TRUE]
                         ELSE calls[u]]
    /\ UNCHANGED <<models, last, accepted, max_of_empty>>

\* A thread takes a step of TwoLayerMLP::set_parameters: the size check, or
\* a loop test with the assignment it guards, which writes one stored value.
SetParametersStep(t) ==
    /\ calls[t].op = "set_parameters"
    /\ LET f == calls[t]
           m == models[1]
           write(field, next) ==
               IF f.i < Len(m[field])
               THEN /\ models' = [models EXCEPT
                                    ![1][field] = Put(m[field], f.i, At(f.parameters, f.idx))]
                    /\ calls' = [calls EXCEPT ![t] = [f EXCEPT !.i = f.i + 1,
                                                               !.idx = f.idx + 1]]
                    /\ UNCHANGED accepted
               ELSE IF next = "return"
                    THEN /\ calls' = [calls EXCEPT ![t] = Idle]
                         /\ accepted' = [accepted EXCEPT
                                ![1] = [fresh |-> FALSE, parameters |-> f.parameters]]
                         /\ UNCHANGED models
                    ELSE /\ calls' = [calls EXCEPT ![t] = [f EXCEPT !.pc = next, !.i = 0]]
                         /\ UNCHANGED <<models, accepted>>
       IN  CASE f.pc = "check" ->
                    /\ calls' = [calls EXCEPT ![t] =
                            IF Len(f.parameters)
                                 # Len(m.W1_) + Len(m.b1_) + Len(m.W2_) + Len(m.b2_)
                            THEN Idle
                            ELSE [f EXCEPT !.pc = "W1_", !.i = 0, !.idx = 0]]
                    /\ UNCHANGED <<models, accepted>>
             [] f.pc = "W1_" -> write("W1_", "b1_")
             [] f.pc = "b1_" -> write("b1_", "W2_")
             [] f.pc = "W2_" -> write("W2_", "b2_")
             [] f.pc = "b2_" -> write("b2_", "return")
    /\ UNCHANGED <<last, max_of_empty>>

NextThreads ==
    \E t \in Threads :
        \/ BeginForward(t)
        \/ ForwardStep(t)
        \/ EndForward(t)
        \/ BeginSetParameters(t)
        \/ SetParametersStep(t)

\* Threads calling forward and set_parameters on one perceptron with no
\* synchronisation between them.
SpecThreads == InitThreads /\ [][NextThreads]_vars

\* ------------------------------------------- calls with large magnitudes

\* Finite values of large magnitude: 20, -100, 300, -300 (the sums they give
\* with the inputs have magnitude around 1000) and the largest finite float.
ExtremeVals == <<20 * Scale, -(100 * Scale), 300 * Scale, -(300 * Scale), FloatMax>>

\* The vectors of large values set_parameters is called with on the model m,
\* all of the expected length: one value throughout, and two values in turn
\* so that the classes differ.
ExtremeParamVectors(m) ==
    {Filled(ExpectedCount(m), ExtremeVals[v]) : v \in 1..Len(ExtremeVals)}
    \cup {[i1 \in 1..ExpectedCount(m) |->
              IF i1 % 2 = 1 THEN ExtremeVals[v] ELSE -ExtremeVals[v]] :
          v \in 1..Len(ExtremeVals)}

\* model->set_parameters(parameters) with finite parameters of large magnitude.
SetExtremeParameters(h) ==
    /\ Alive
    /\ models[h] # NoModel
    /\ \E parameters \in ExtremeParamVectors(models[h]) :
        LET r == set_parameters(models[h], parameters)
        IN  /\ models' = [models EXCEPT ![h] = r.model]
            /\ accepted' = IF r.threw THEN accepted
                           ELSE [accepted EXCEPT
                                    ![h] = [fresh |-> FALSE, parameters |-> parameters]]
            /\ last' = Call("set_parameters", h, "", parameters, r)
    /\ UNCHANGED <<max_of_empty, calls>>

NextNumeric == \E h \in Handles : Create(h) \/ SetExtremeParameters(h) \/ Forward(h)

\* The caller of Spec handing the models parameters of large magnitude.
SpecNumeric == Init /\ [][NextNumeric]_vars

\* ------------------------------------------------------------------ claims

RECURSIVE SeqSum(_)
\* The sum of the entries of a vector.
SeqSum(v) == IF Len(v) = 0 THEN 0 ELSE v[1] + SeqSum(Tail(v))

\* The handle of the last call owns a model of this class.
LastOn(type) == last.h \in DOMAIN models /\ models[last.h].type = type

\* C1: set_parameters called with a vector whose length differs from the
\* shape-derived expected count fails and leaves every stored weight and bias
\* unchanged (the whole model object is the same), so that forward returns
\* what it returned before the rejected call.
C1_RejectedSetParametersChangesNothing ==
    [][(last'.op = "set_parameters"
            /\ Len(last'.arg) # ExpectedCount(models[last'.h]))
        => /\ last'.threw
           /\ last'.what = "Parameter size mismatch"
           /\ models' = models
           /\ LET x == InputVec(MaxSeed, input_size(models[last'.h]))
              IN  forward(models'[last'.h], x).value = forward(models[last'.h], x).value]_vars

\* C1 witness: a vector one too long was rejected by a perceptron that holds
\* parameters accepted earlier.
C1_Witness ==
    /\ last.op = "set_parameters" /\ last.threw
    /\ LastOn("mlp")
    /\ ~accepted[last.h].fresh
    /\ accepted[last.h].parameters # ParamVec(0, Len(accepted[last.h].parameters))
    /\ Len(last.arg) = ExpectedCount(models[last.h]) + 1

\* C2: forward fails with the dimension-mismatch error whenever the input
\* length differs from input_size, producing no output, and succeeds
\* whenever the lengths agree.
C2_ForwardFailsExactlyOnLengthMismatch ==
    last.op = "forward"
    => /\ last.threw <=> Len(last.arg) # input_size(models[last.h])
       /\ last.threw => (last.what = "Input size mismatch" /\ last.value = <<>>)

\* C3: forward, whether it succeeds or fails, leaves the parameters and the
\* shape unchanged; its output is the one the state it leaves determines, so
\* a repeated call with the same input returns the same output.
C3_ForwardIsPure ==
    [][last'.op = "forward"
        => /\ models' = models
           /\ accepted' = accepted
           /\ forward(models'[last'.h], last'.arg).value = last'.value
           /\ (last.op = "forward" /\ last.h = last'.h /\ last.arg = last'.arg)
                => (last'.threw = last.threw /\ last'.value = last.value)]_vars

\* C3 witness: a forward call has returned on a perceptron with accepted,
\* non-zero parameters.
C3_Witness ==
    /\ last.op = "forward" /\ ~last.threw
    /\ LastOn("mlp")
    /\ ~accepted[last.h].fresh
    /\ \E i1 \in 1..Len(models[last.h].b2_) : models[last.h].b2_[i1] # 0

\* The logits the example's text computes: 0.4, -0.88, 0.74.
example_logits ==
    <<(2 * Scale) \div 5, -((22 * Scale) \div 25), (37 * Scale) \div 50>>

\* C4: with input_size 2 and 3 classes, after set_parameters of the example's
\* nine values, forward of the example's input computes the logits
\* 0.4, -0.88, 0.74 and returns their softmax.
C4_ExampleLogitsInterleaved ==
    (/\ last.op = "forward" /\ ~last.threw
     /\ LastOn("multiclass")
     /\ models[last.h].input_size_ = 2 /\ models[last.h].num_classes_ = 3
     /\ ~accepted[last.h].fresh
     /\ accepted[last.h].parameters = classifier_params
     /\ last.arg = classification_input)
    => /\ Logits(models[last.h], last.arg) = example_logits
       /\ last.value = Softmax(example_logits)

\* The logits of C5's formula for parameters p, input x, n inputs, k classes.
TrailingBiasLogits(p, x, n, k) ==
    [c1 \in 1..k |->
        At(p, k * n + (c1 - 1))
        + SeqSum([i1 \in 1..n |-> FMul(At(p, (c1 - 1) * n + (i1 - 1)), At(x, i1 - 1))])]

C6_LinearOutput ==
    (last.op = "forward" /\ LastOn("linear") /\ ~accepted[last.h].fresh
        /\ Len(last.arg) = models[last.h].input_size_)
    => LET n == models[last.h].input_size_
           p == accepted[last.h].parameters
       IN  /\ Len(p) = n + 1
           /\ ~last.threw
           /\ last.value =
                <<At(p, n) + SeqSum([i1 \in 1..n |-> FMul(At(p, i1 - 1), At(last.arg, i1 - 1))])>>

\* C6 witness: forward has returned on a linear regressor with two or more
\* inputs, non-zero bias and weights, and a non-zero input.
C6_Witness ==
    /\ last.op = "forward" /\ ~last.threw
    /\ LastOn("linear")
    /\ models[last.h].input_size_ >= 2
    /\ ~accepted[last.h].fresh
    /\ models[last.h].bias_ # 0
    /\ models[last.h].weights_[1] # models[last.h].bias_
    /\ \A i1 \in 1..Len(last.arg) : last.arg[i1] # 0

\* The output of C7's formula for parameters p, input x and shape (n, h, m).
PerceptronOutput(p, x, n, h, m) ==
    LET W1(i, j) == At(p, i * h + j)
        b1(j) == At(p, n * h + j)
        W2(j, o) == At(p, n * h + h + j * m + o)
        b2(o) == At(p, n * h + h + h * m + o)
        pre(j) == b1(j) + SeqSum([i1 \in 1..n |-> FMul(W1(i1 - 1, j), At(x, i1 - 1))])
        relu(j) == IF pre(j) > 0 THEN pre(j) ELSE 0
    IN  [o1 \in 1..m |->
            b2(o1 - 1) + SeqSum([j1 \in 1..h |-> FMul(W2(j1 - 1, o1 - 1), relu(j1 - 1))])]

\* C7: the perceptron of shape (n, h, m) accepts exactly n*h + h + h*m + m
\* values laid out as W1, b1, W2, b2, and forward returns
\* output[o] = b2[o] + sum_j W2[j*m + o] * max(0, b1[j] + sum_i W1[i*h + j] * x[i]).
C7_PerceptronLayout ==
    /\ (last.op = "set_parameters" /\ LastOn("mlp"))
        => LET m == models[last.h]
           IN  last.threw <=>
                 Len(last.arg) # m.input_size_ * m.hidden_size_ + m.hidden_size_
                                  + m.hidden_size_ * m.output_size_ + m.output_size_
    /\ (last.op = "forward" /\ LastOn("mlp") /\ ~accepted[last.h].fresh
          /\ Len(last.arg) = models[last.h].input_size_)
        => LET m == models[last.h]
           IN  /\ ~last.threw
               /\ last.value = PerceptronOutput(accepted[last.h].parameters, last.arg,
                                                m.input_size_, m.hidden_size_, m.output_size_)

\* C7 witness: forward has returned on a perceptron of the tests' shape
\* (2, 3, 2) with parameters that differ from entry to entry, one hidden
\* unit being cut off by the ReLU and another one not.
C7_Witness ==
    /\ last.op = "forward" /\ ~last.threw
    /\ LastOn("mlp")
    /\ models[last.h].input_size_ = 2 /\ models[last.h].hidden_size_ = 3
    /\ models[last.h].output_size_ = 2
    /\ ~accepted[last.h].fresh
    /\ accepted[last.h].parameters = ParamVec(1, 17)
    /\ \E j1, j2 \in 1..3 :
        /\ Hidden(models[last.h], last.arg)[j1] > 0
        /\ HiddenLoop(models[last.h], last.arg, j2 - 1, 0, At(models[last.h].b1_, j2 - 1)) < 0

\* Every shape integer of the model is positive.
ValidShape(m) ==
    CASE m.type \in {"linear", "logistic"} -> m.input_size_ >= 1
      [] m.type = "multiclass" -> m.input_size_ >= 1 /\ m.num_classes_ >= 1
      [] m.type = "mlp" -> m.input_size_ >= 1 /\ m.hidden_size_ >= 1 /\ m.output_size_ >= 1

\* What a model with all-zero parameters returns: 0 (linear), sigmoid(0) = 0.5
\* (logistic), 1/k for each of the k classes, m zeros (perceptron).
ZeroOutput(m) ==
    CASE m.type = "linear" -> <<0>>
      [] m.type = "logistic" -> <<Scale \div 2>>
      [] m.type = "multiclass" -> Filled(m.num_classes_, Round(Scale, m.num_classes_))
      [] m.type = "mlp" -> Filled(m.output_size_, 0)

\* C8: for every variant and valid shape, forward on a freshly constructed
\* model returns, for every input of length input_size, what it returns after
\* set_parameters of the all-zero vector of the expected length: 0 for the
\* linear model, zeros for the perceptron, k equal entries 1/k for the
\* classifier.
C8_FreshBehavesAsZero ==
    /\ \A h \in DOMAIN models :
        (models[h] # NoModel /\ accepted[h].fresh /\ ValidShape(models[h]))
        => \A x \in InputVectors :
            Len(x) = models[h].input_size_
            => LET fr == forward(models[h], x)
                   zeroed == set_parameters(models[h], Filled(ExpectedCount(models[h]), 0))
                   zr == forward(zeroed.model, x)
               IN  /\ ~fr.threw /\ ~zeroed.threw /\ ~zr.threw
                   /\ fr.value = zr.value
                   /\ fr.value = ZeroOutput(models[h])
    /\ (/\ last.op = "forward" /\ ~last.threw
        /\ last.h \in DOMAIN models
        /\ ValidShape(models[last.h])
        /\ \/ accepted[last.h].fresh
           \/ accepted[last.h].parameters = Filled(ExpectedCount(models[last.h]), 0))
       => last.value = ZeroOutput(models[last.h])

\* C8 witness: forward has returned for a non-zero input on a classifier with
\* three classes on which set_parameters was never called.
C8_Witness ==
    /\ last.op = "forward" /\ ~last.threw
    /\ LastOn("multiclass")
    /\ accepted[last.h].fresh
    /\ models[last.h].input_size_ = 2 /\ models[last.h].num_classes_ = 3
    /\ \A i1 \in 1..Len(last.arg) : last.arg[i1] # 0

\* The type_id and the number of shape integers create succeeds for.
CreatePairs == {<<"linear", 1>>, <<"logistic", 1>>, <<"multiclass", 2>>, <<"mlp", 3>>}

\* C9: create succeeds exactly for (linear,1), (logistic,1), (multiclass,2),
\* (mlp,3); for an unrecognized type_id with any arity and for a recognized
\* type_id with any other arity it fails with an error and returns no model.
C9_CreateSucceedsExactlyForPairs ==
    last.op = "create_model"
    => /\ ~last.threw <=> <<last.type_name, Len(last.arg)>> \in CreatePairs
       /\ last.threw => (last.made = NoModel /\ last.what # "")
       /\ ~last.threw => (last.made.type = last.type_name /\ models[last.h] = last.made)

\* C9 witness: create("linear", 2, 3) has failed while the handle owned a
\* model.
C9_Witness ==
    /\ last.op = "create_model" /\ last.threw
    /\ last.type_name = "linear" /\ last.arg = <<2, 3>>
    /\ models[last.h] # NoModel

\* C10: a model returned by create reports the shape it was created with:
\* input_size() is the first shape integer; output_size() is 1 for linear
\* and logistic, the class count for multiclass, the third shape integer for
\* mlp; and every forward that returns, returns output_size() entries.
C10_ReportedShape ==
    /\ (last.op = "create_model" /\ ~last.threw)
        => /\ input_size(last.made) = last.arg[1]
           /\ output_size(last.made) =
                CASE last.type_name \in {"linear", "logistic"} -> 1
                  [] last.type_name = "multiclass" -> last.arg[2]
                  [] last.type_name = "mlp" -> last.arg[3]
    /\ (last.op = "forward" /\ ~last.threw)
        => Len(last.value) = output_size(models[last.h])

\* C10 witness: forward has returned on a perceptron whose hidden layer and
\* output differ in width.
C10_Witness ==
    /\ last.op = "forward" /\ ~last.threw
    /\ LastOn("mlp")
    /\ models[last.h].hidden_size_ # models[last.h].output_size_
    /\ models[last.h].input_size_ # models[last.h].output_size_

\* C11: create constructs a model only from positive shape integers: every
\* model that exists has input_size >= 1 and positive class count, hidden
\* width and output width, and create called with a shape integer equal to
\* 0 returns no model.
C11_OnlyPositiveShapes ==
    /\ \A h \in DOMAIN models : models[h] # NoModel => ValidShape(models[h])
    /\ (last.op = "create_model" /\ \E i1 \in 1..Len(last.arg) : last.arg[i1] = 0)
        => (last.threw /\ last.made = NoModel)

\* C12: in every reachable state, after any sequence of successful and
\* failed create calls, is_registered(t) is true exactly when t is one of
\* "linear", "logistic", "multiclass", "mlp", and get_registered_types
\* returns exactly these four identifiers in this order.
C12_RegisteredTypesFixed ==
    /\ \A t \in TypeNames \cup {"nonexistent", ""} :
        is_registered(t) <=> t \in {"linear", "logistic", "multiclass", "mlp"}
    /\ get_registered_types = <<"linear", "logistic", "multiclass", "mlp">>
    /\ last.op = "is_registered"
        => last.value = <<last.type_name \in {"linear", "logistic", "multiclass", "mlp"}>>
    /\ last.op = "get_registered_types"
        => last.value = <<"linear", "logistic", "multiclass", "mlp">>

\* C12 witness: is_registered("mlp") was asked while the caller owned a
\* model on which set_parameters had returned.
C12_Witness ==
    /\ last.op = "is_registered" /\ last.type_name = "mlp"
    /\ \E h \in DOMAIN models : models[h] # NoModel /\ ~accepted[h].fresh

\* The tolerance 1e-3 of C13.
SumTolerance == Scale \div 1000

\* C13: for the multi-class classifier with k >= 1 and any finite parameters
\* and input, every entry of forward's output is a number in [0,1], neither
\* NaN nor an infinity, and the entries sum to 1 within 1e-3, also when the
\* logits have magnitude around 1000.
C13_SoftmaxIsDistribution ==
    (/\ last.op = "forward"
     /\ LastOn("multiclass")
     /\ models[last.h].num_classes_ >= 1
     /\ Len(last.arg) = models[last.h].input_size_)
    => /\ ~last.threw
       /\ \A c1 \in 1..Len(last.value) :
            IsFinite(last.value[c1]) /\ 0 <= last.value[c1] /\ last.value[c1] <= Scale
       /\ Abs(SeqSum(last.value) - Scale) <= SumTolerance

\* C14: for the logistic regressor and all finite parameters and inputs, the
\* single output value of forward lies strictly between 0 and 1: it is never
\* exactly 0 and never exactly 1.
C14_SigmoidStrictlyInside ==
    (last.op = "forward" /\ LastOn("logistic") /\ ValidShape(models[last.h])
        /\ ~last.threw)
    => /\ Len(last.value) = 1
       /\ 0 < last.value[1]
       /\ last.value[1] < Scale

\* C15: a set_parameters(p) that returns replaces the whole parameter set:
\* the model is the one set_parameters(p) makes of a newly constructed model
\* of the same shape, whatever was accepted before; repeating
\* set_parameters(p) changes nothing; and set_parameters(p2) on it gives what
\* set_parameters(p2) alone gives.
C15_SetParametersReplacesAll ==
    \A h \in DOMAIN models :
        (models[h] # NoModel /\ ~accepted[h].fresh)
        => /\ models[h] = set_parameters(Constructed(models[h]), accepted[h].parameters).model
           /\ set_parameters(models[h], accepted[h].parameters).model = models[h]
           /\ \A p2 \in ParamVectors(models[h]) :
                LET after == set_parameters(models[h], p2)
                IN  ~after.threw
                    => after.model = set_parameters(Constructed(models[h]), p2).model

\* C15 witness: set_parameters has returned on a classifier with two classes
\* or more whose biases are not zero, and another vector it accepts would
\* change it.
C15_Witness ==
    /\ last.op = "set_parameters" /\ ~last.threw
    /\ LastOn("multiclass")
    /\ models[last.h].num_classes_ >= 2 /\ models[last.h].input_size_ >= 1
    /\ \E c1 \in 1..models[last.h].num_classes_ : models[last.h].biases_[c1] # 0
    /\ \E p2 \in ParamVectors(models[last.h]) :
        LET after == set_parameters(models[last.h], p2)
        IN  ~after.threw /\ after.model # models[last.h]

\* The number of parameters the model stores.
StoredCount(m) ==
    CASE m.type \in {"linear", "logistic"} -> Len(m.weights_) + 1
      [] m.type = "multiclass" ->
            SeqSum([c1 \in 1..Len(m.weights_) |-> Len(m.weights_[c1])]) + Len(m.biases_)
      [] m.type = "mlp" -> Len(m.W1_) + Len(m.b1_) + Len(m.W2_) + Len(m.b2_)

\* C16: over every set_parameters and forward call, accepted or rejected,
\* input_size(), output_size() and get_model_type() of a model keep the
\* values they had at construction, and the number of stored parameters is
\* always the shape-derived expected count.
C16_ShapeAndCountFixed ==
    [][\A h \in DOMAIN models :
        /\ models[h] # NoModel
            => /\ models'[h] # NoModel
               /\ input_size(models'[h]) = input_size(models[h])
               /\ output_size(models'[h]) = output_size(models[h])
               /\ get_model_type(models'[h]) = get_model_type(models[h])
        /\ models'[h] # NoModel
            => /\ StoredCount(models'[h]) = ExpectedCount(models'[h])
               /\ (last'.op = "create_model" /\ ~last'.threw /\ last'.h = h)
                    => (/\ input_size(models'[h]) = input_size(last'.made)
                        /\ output_size(models'[h]) = output_size(last'.made)
                        /\ get_model_type(models'[h]) = get_model_type(last'.made))]_vars

\* C16 witness: a perceptron whose three dimensions differ holds accepted
\* parameters and has just rejected a vector.
C16_Witness ==
    /\ last.op = "set_parameters" /\ last.threw
    /\ LastOn("mlp")
    /\ ~accepted[last.h].fresh
    /\ models[last.h].input_size_ # models[last.h].hidden_size_
    /\ models[last.h].hidden_size_ # models[last.h].output_size_
    /\ get_model_type(models[last.h]) = "Two-Layer MLP"

\* The model of handle h as its own history makes it: constructed with its
\* shape and given the parameters last accepted through h.
OwnModel(h) ==
    IF accepted[h].fresh THEN Constructed(models[h])
    ELSE set_parameters(Constructed(models[h]), accepted[h].parameters).model

\* C17: models share no mutable state: a set_parameters or forward call on
\* one model, and a create_model call, leave the parameters and the shape of
\* each other model unchanged, and every forward output of a model is the one
\* its own shape and its own accepted parameters give, whatever was called on
\* the other model in between.
C17_InstancesIndependent ==
    [][/\ \A h \in DOMAIN models :
            (models[h] # NoModel /\ last'.h # h)
            => /\ models'[h] = models[h]
               /\ accepted'[h] = accepted[h]
               /\ input_size(models'[h]) = input_size(models[h])
               /\ output_size(models'[h]) = output_size(models[h])
       /\ last'.op = "forward"
            => LET own == forward(OwnModel(last'.h), last'.arg)
               IN  last'.threw = own.threw /\ last'.value = own.value]_vars

\* C17 witness: the caller owns two classifiers of one shape holding
\* different accepted parameters, and set_parameters has just returned on
\* one of them.
C17_Witness ==
    /\ last.op = "set_parameters" /\ ~last.threw
    /\ DOMAIN models = PairHandles
    /\ models[1].type = "multiclass" /\ models[2].type = "multiclass"
    /\ ~accepted[1].fresh /\ ~accepted[2].fresh
    /\ accepted[1].parameters # accepted[2].parameters
    /\ models[1] # models[2]

\* C18: a forward call during which no set_parameters call is in flight,
\* however its steps are interleaved with those of other forward calls on
\* the same model, returns, at the step that ends it, what it returns when
\* run alone on the parameters of that moment, and no step of a
\* forward call changes the parameters; so a forward call can observe a mix
\* of old and new parameter values only when a set_parameters call overlaps
\* it.
C18_ConcurrentForwardsAgree ==
    [][/\ \A t \in Threads :
            (/\ calls[t].op = "forward" /\ calls[t].pc # "done"
             /\ calls'[t].op = "forward" /\ calls'[t].pc = "done"
             /\ ~calls'[t].overlapped)
            => LET alone == MLPForward(models'[1], calls'[t].input)
               IN  /\ calls'[t].threw = alone.threw
                   /\ calls'[t].output = alone.value
       /\ \A t \in Threads :
            (calls[t].op = "forward" /\ calls'[t] # calls[t])
            => models' = models]_vars

\* C18 witness: on a perceptron with accepted non-zero parameters a forward
\* call that no set_parameters overlapped has returned a non-zero output
\* while another forward call with a different input is in the middle of its
\* loops.
C18_Witness ==
    /\ ~accepted[1].fresh
    /\ \E t, u \in Threads :
        /\ calls[t].op = "forward" /\ calls[t].pc = "done"
        /\ ~calls[t].overlapped /\ ~calls[t].threw
        /\ calls[t].output # Filled(Len(calls[t].output), 0)
        /\ calls[u].op = "forward" /\ calls[u].pc \in {"input", "sum"}
        /\ ~calls[u].overlapped
        /\ calls[u].input # calls[t].input

\* The pre-activation of hidden unit j (0-based) for parameters p laid out
\* as W1, b1, W2, b2, input x and shape (n, h, .).
PreActivation(p, x, n, h, j) ==
    At(p, n * h + j)
    + SeqSum([i1 \in 1..n |-> FMul(At(p, (i1 - 1) * h + j), At(x, i1 - 1))])

\* C19: for the perceptron with accepted parameters and an input of length
\* input_size, each hidden activation the output layer uses is >= 0 and is
\* max(0, pre-activation); when every pre-activation is negative, forward
\* returns exactly the biases b2.
C19_HiddenRectified ==
    (last.op = "forward" /\ LastOn("mlp") /\ ~accepted[last.h].fresh
        /\ Len(last.arg) = models[last.h].input_size_)
    => LET m == models[last.h]
           p == accepted[last.h].parameters
           n == m.input_size_
           h == m.hidden_size_
           pre(j) == PreActivation(p, last.arg, n, h, j)
           act == Hidden(m, last.arg)
       IN  /\ ~last.threw
           /\ \A j1 \in 1..h :
                /\ act[j1] >= 0
                /\ act[j1] = IF pre(j1 - 1) > 0 THEN pre(j1 - 1) ELSE 0
           /\ last.value =
                [o1 \in 1..m.output_size_ |-> OutputLoop(m, act, o1 - 1, 0, At(m.b2_, o1 - 1))]
           /\ (\A j1 \in 1..h : pre(j1 - 1) < 0)
                => /\ last.value = m.b2_
                   /\ last.value =
                        [o1 \in 1..m.output_size_ |->
                            At(p, n * h + h + h * m.output_size_ + (o1 - 1))]

\* C19 witness: forward has returned the biases b2, not zero, on a
\* perceptron with two hidden units or more whose pre-activations are all
\* negative and whose second-layer weights are not zero.
C19_Witness ==
    /\ last.op = "forward" /\ ~last.threw
    /\ LastOn("mlp")
    /\ ~accepted[last.h].fresh
    /\ models[last.h].input_size_ >= 1
    /\ models[last.h].hidden_size_ >= 2
    /\ models[last.h].output_size_ >= 1
    /\ \A j1 \in 1..models[last.h].hidden_size_ :
        HiddenLoop(models[last.h], last.arg, j1 - 1, 0, At(models[last.h].b1_, j1 - 1)) < 0
    /\ \E i1 \in 1..Len(models[last.h].W2_) : models[last.h].W2_[i1] # 0
    /\ \E i1 \in 1..Len(models[last.h].b2_) : models[last.h].b2_[i1] # 0
    /\ last.value = models[last.h].b2_

\* C20: in the multi-class forward with k >= 1, after the maximum logit is
\* subtracted every shifted logit is <= 0 and at least one is 0, so the
\* softmax denominator is at least e^0 = 1 and the normalisation never
\* divides by zero; the class with the largest logit receives the (weakly)
\* largest probability.
C20_ShiftedLogitsNonPositive ==
    (/\ last.op = "forward"
     /\ LastOn("multiclass")
     /\ models[last.h].num_classes_ >= 1
     /\ Len(last.arg) = models[last.h].input_size_)
    => LET logits == Logits(models[last.h], last.arg)
           k == Len(logits)
           max_logit == MaxElement(logits, 1, At(logits, 0))
           shifted == [c1 \in 1..k |-> FSub(logits[c1], max_logit)]
           sum_exp == SumExp([c1 \in 1..k |-> Exp(shifted[c1])], 0, 0)
       IN  /\ ~last.threw
           /\ \A c1 \in 1..k : shifted[c1] # NaN /\ shifted[c1] <= 0
           /\ \E c1 \in 1..k : shifted[c1] = 0
           /\ sum_exp # NaN /\ sum_exp >= Scale
           /\ \A c1, c2 \in 1..k :
                logits[c1] = max_logit
                => (/\ last.value[c1] # NaN /\ last.value[c2] # NaN
                    /\ last.value[c1] >= last.value[c2])

\* Every index the loops of forward and set_parameters use on the model m
\* lies inside the stored vector it is applied to.
IndexesInside(m) ==
    CASE m.type \in {"linear", "logistic"} ->
            \A i \in 0..(m.input_size_ - 1) : i < Len(m.weights_)
      [] m.type = "multiclass" ->
            \A c \in 0..(m.num_classes_ - 1) :
                /\ c < Len(m.weights_) /\ c < Len(m.biases_)
                /\ \A i \in 0..(m.input_size_ - 1) : i < Len(At(m.weights_, c))
      [] m.type = "mlp" ->
            /\ \A h \in 0..(m.hidden_size_ - 1) :
                /\ h < Len(m.b1_)
                /\ \A i \in 0..(m.input_size_ - 1) : i * m.hidden_size_ + h < Len(m.W1_)
                /\ \A o \in 0..(m.output_size_ - 1) : h * m.output_size_ + o < Len(m.W2_)
            /\ \A o \in 0..(m.output_size_ - 1) : o < Len(m.b2_)

\* C21: for every model create_model returns, those made with a shape
\* integer 0 included, forward on an input of length input_size and
\* set_parameters on a vector of the expected length read and write only
\* inside the stored vectors; in particular the multi-class forward never
\* takes the maximum of an empty logits vector.
C21_AccessesInsideBounds ==
    /\ \A h \in DOMAIN models : models[h] # NoModel => IndexesInside(models[h])
    /\ (/\ last.op = "forward"
        /\ last.h \in DOMAIN models
        /\ Len(last.arg) = input_size(models[last.h]))
       => /\ last.what # "SIGSEGV"
          /\ LastOn("multiclass") => Len(Logits(models[last.h], last.arg)) >= 1

====
